---- MODULE Spec2Model ----
(***************************************************************************)
(* Model of src/main.py: a Telegram moderation bot that stores users,      *)
(* groups and warning points in three MongoDB collections, serves six chat *)
(* commands, and runs one background task (auto_ban_inactive_users) that   *)
(* kicks every tracked user without a warning in the trailing 24 hours.    *)
(*                                                                         *)
(* Collections are sequences in natural (insertion) order.  A user or      *)
(* group document is represented by its key (user_id / chat_id): the       *)
(* profile fields and the title are written by add_user / add_group but    *)
(* read only to format names.  A command handler is one atomic action: the *)
(* dispatcher runs handlers one after another, the sweep writes to no      *)
(* collection and the handlers read nothing the sweep writes, so the       *)
(* handler's own await points commute with every sweep step.  The sweep is *)
(* split at its await points (ban_chat_member, unban_chat_member, sleep):  *)
(* the code between two awaits runs without yielding to the event loop.    *)
(***************************************************************************)
EXTENDS Integers, Sequences, FiniteSets, TLC

VARIABLES
    users,          \* users_col: sequence of user_id, natural order
    groups,         \* groups_col: sequence of chat_id, natural order
    warnings,       \* warnings_col: sequence of warning documents
    clock,          \* int(time.time())
    banned,         \* chat platform: set of <<chat_id, user_id>> currently banned
    last,           \* the last update handled: request, lookup result and reply
    nreq,           \* number of updates handled so far
    pc,             \* position of the sweep task
    now,            \* sweep local `now`
    one_day_ago,    \* sweep local `one_day_ago`
    all_users,      \* sweep local `all_users`
    ui,             \* index in all_users of the user being processed
    cur_groups,     \* the documents the groups_col.find() cursor of this user returned
    gi,             \* index in cur_groups of the group being processed
    wake,           \* time at which asyncio.sleep(3600) returns
    cycles,         \* number of cycles started
    callLog,        \* history: ban/unban calls returned in the current cycle
    exemptSeen,     \* history: users that had a recent warning when checked in this cycle
    eligibleSeen,   \* history: users that had none when checked in this cycle
    groupsAtStart   \* history: groups_col when the current cycle started

storeVars == <<users, groups, warnings>>
sweepVars == <<pc, now, one_day_ago, all_users, ui, cur_groups, gi, wake, cycles>>
histVars  == <<callLog, exemptSeen, eligibleSeen, groupsAtStart>>
vars == <<users, groups, warnings, clock, banned, last, nreq,
          pc, now, one_day_ago, all_users, ui, cur_groups, gi, wake, cycles,
          callLog, exemptSeen, eligibleSeen, groupsAtStart>>

----------------------------------------------------------------------------
(* Bounds and input domains *)

MaxCmds   == 2      \* updates handled in one behaviour
MaxSweepCmds == 3   \* updates handled in one behaviour beside the sweep
MaxTicks  == 2      \* clock advances in one behaviour
MaxDocs   == 3      \* warning documents when the database functions run alone
MaxCycles == 1      \* sweep cycles started in one behaviour

UserIds == {1, 2}
ChatIds == {-1, -2}
NoReply == <<>>     \* update.message.reply_to_message is None

DAY        == 86400     \* 24 * 60 * 60
SLEEP      == 3600      \* asyncio.sleep(3600)
MAX_AMOUNT == 100       \* upper clamp of /punto
TOP_LIMIT  == 10        \* get_top_warned_users(limit=10)
T0         == 1000000   \* clock value of the initial state
TickLen    == 43200     \* one clock advance: half a day

DEFAULT_REASON == "Nessun motivo fornito."

\* What update.effective_chat.get_member(user) gives: a ChatMember.status,
\* or "error" when the call raises.
Lookups == {"creator", "administrator", "member", "error"}

\* One token of context.args.  isdigit is str.isdigit(); intok says whether
\* int(text) returns (val) or raises ValueError, as it does for a digit
\* character that is not a decimal, such as a superscript two.
Tok(text, isdigit, intok, val) ==
    [text |-> text, isdigit |-> isdigit, intok |-> intok, val |-> val]

N0     == Tok("0", TRUE, TRUE, 0)
N2     == Tok("2", TRUE, TRUE, 2)
N250   == Tok("250", TRUE, TRUE, 250)
NSup   == Tok("^2", TRUE, FALSE, 0)
WSpam  == Tok("spam", FALSE, FALSE, 0)
WFlood == Tok("flood", FALSE, FALSE, 0)
WNeg   == Tok("-5", FALSE, TRUE, -5)

\* context.args of the updates the model delivers
ArgLists ==
    { <<>>, <<N2, WSpam, WFlood>>, <<N0>>, <<N250, WSpam>>, <<WNeg, WSpam>>,
      <<NSup, WSpam>> }

\* context.args of the /warnings updates: nothing, a user id, not a number
IdArgLists == { <<>>, <<N2>>, <<WSpam>> }

----------------------------------------------------------------------------
(* Python helpers *)

Max(a, b) == IF a >= b THEN a ELSE b
Min(a, b) == IF a <= b THEN a ELSE b

\* " ".join(toks[i] for toks from index i on)
RECURSIVE join(_, _)
join(toks, i) ==
    IF i > Len(toks) THEN ""
    ELSE IF i = Len(toks) THEN toks[i].text
    ELSE toks[i].text \o " " \o join(toks, i + 1)

\* the positions of seq, as a set
Idx(seq) == 1..Len(seq)

\* stable sort of a sequence of warning documents by timestamp, descending
RECURSIVE sort_desc(_)
sort_desc(ws) ==
    IF ws = <<>> THEN <<>>
    ELSE LET top == CHOOSE t \in {ws[i].timestamp : i \in Idx(ws)} :
                        \A i \in Idx(ws) : ws[i].timestamp <= t
         IN SelectSeq(ws, LAMBDA w : w.timestamp = top)
            \o sort_desc(SelectSeq(ws, LAMBDA w : w.timestamp /= top))

----------------------------------------------------------------------------
(* Database functions *)

\* add_user: upsert keyed by user_id
add_user(us, user_id) ==
    IF \E i \in Idx(us) : us[i] = user_id THEN us ELSE Append(us, user_id)

\* add_group: upsert keyed by chat_id
\* (variant: the upsert is not made)
add_group_none(gs, chat_id) == gs
add_group(gs, chat_id) ==
    IF \E i \in Idx(gs) : gs[i] = chat_id THEN gs ELSE Append(gs, chat_id)

\* add_warning: insert_one, with timestamp int(time.time())
add_warning(ws, user_id, chat_id, reason, t) ==
    Append(ws, [user_id |-> user_id, chat_id |-> chat_id,
                timestamp |-> t, reason |-> reason])

\* the `for _ in range(amount): add_warning(...)` loop of warn: every pass
\* appends the same document (the clock does not advance inside the handler)
add_warnings(ws, amount, user_id, chat_id, reason, t) ==
    ws \o [k \in 1..amount |-> add_warning(<<>>, user_id, chat_id, reason, t)[1]]

\* get_warnings: find({"user_id": user_id}).sort("timestamp", -1)
get_warnings(ws, user_id) ==
    sort_desc(SelectSeq(ws, LAMBDA w : w.user_id = user_id))

\* clear_warnings: delete_many({"user_id": user_id})
\* (variant: delete_one, which deletes the first match only)
delete_one(ws, user_id) ==
    LET hits == {i \in Idx(ws) : ws[i].user_id = user_id}
    IN IF hits = {} THEN ws
       ELSE LET first == CHOOSE i \in hits : \A j \in hits : i <= j
            IN SubSeq(ws, 1, first - 1) \o SubSeq(ws, first + 1, Len(ws))
clear_warnings(ws, user_id) ==
    SelectSeq(ws, LAMBDA w : w.user_id /= user_id)

\* get_users_with_no_warnings: distinct("user_id"), then $nin
\* (variant: $in for $nin)
users_with_some_warning(us, ws) ==
    LET warned_user_ids == {ws[i].user_id : i \in Idx(ws)}
    IN SelectSeq(us, LAMBDA u : u \in warned_user_ids)
get_users_with_no_warnings(us, ws) ==
    LET warned_user_ids == {ws[i].user_id : i \in Idx(ws)}
    IN SelectSeq(us, LAMBDA u : u \notin warned_user_ids)

\* get_top_warned_users: $group by user_id with $sum 1, $sort count -1, $limit.
\* The order of equal counts is the store's; here the smaller _id first.
RECURSIVE top_sorted(_, _)
top_sorted(ids, ws) ==
    IF ids = {} THEN <<>>
    ELSE LET cnt(u) == Len(SelectSeq(ws, LAMBDA w : w.user_id = u))
             best == CHOOSE u \in ids :
                         \A v \in ids : cnt(v) < cnt(u) \/ (cnt(v) = cnt(u) /\ u <= v)
         IN <<[_id |-> best, count |-> cnt(best)]>> \o top_sorted(ids \ {best}, ws)
get_top_warned_users(ws, limit) ==
    LET all == top_sorted({ws[i].user_id : i \in Idx(ws)}, ws)
    IN SubSeq(all, 1, Min(limit, Len(all)))

\* is_admin: chat_member.status in ['administrator', 'creator']; False when
\* get_member raises
\* (variant: a failed lookup counts as authorized)
is_admin_open(lookup) ==
    lookup \in {"administrator", "creator", "error"}
is_admin(lookup) ==
    IF lookup = "error" THEN FALSE ELSE lookup \in {"administrator", "creator"}

\* warn, lines 116-129: amount and reason from context.args
\* (variant: no upper clamp)
clamp_no_upper(amount) == Max(1, amount)
clamp(amount) == Max(1, Min(amount, MAX_AMOUNT))

parse_args(args) ==
    IF args = <<>> THEN [amount |-> 1, reason |-> DEFAULT_REASON]
    ELSE IF args[1].isdigit
         THEN IF args[1].intok
              THEN [amount |-> args[1].val,
                    reason |-> IF Len(args) > 1 THEN join(args, 2) ELSE DEFAULT_REASON]
              ELSE [amount |-> 1, reason |-> DEFAULT_REASON]   \* except: pass
         ELSE [amount |-> 1, reason |-> join(args, 1)]

----------------------------------------------------------------------------
(* Command handlers *)

\* The record of one handled update: the command, its chat, the role lookup
\* the handler made ("none" when it makes none), the replied-to user, the
\* arguments, the reply passed to reply_text, the number the reply reports,
\* and whether the reply that precedes the handler's writes was delivered.
Handled(cmd, chat_id, lookup, reply_to, args, reply, total, sent) ==
    /\ nreq' = nreq + 1
    /\ last' = [cmd |-> cmd, chat_id |-> chat_id, lookup |-> lookup,
                reply_to |-> reply_to, args |-> args, reply |-> reply,
                total |-> total, sent |-> sent]
    /\ UNCHANGED <<clock, banned, sweepVars, histVars>>

\* start: reply_text is awaited before add_user and add_group; when it
\* raises, the handler ends there.
Start(chat_id, caller, sent) ==
    /\ Handled("start", chat_id, "none", NoReply, <<>>, "started", 0, sent)
    /\ users' = IF sent THEN add_user(users, caller) ELSE users
    /\ groups' = IF sent THEN add_group(groups, chat_id) ELSE groups
    /\ UNCHANGED warnings

\* warn (/punto)
Warn(chat_id, lookup, reply_to, args) ==
    IF ~is_admin(lookup)
    THEN /\ Handled("punto", chat_id, lookup, reply_to, args, "unauthorized", 0, TRUE)
         /\ UNCHANGED storeVars
    ELSE IF reply_to /= NoReply
    THEN LET warned_user == reply_to[1]
             parsed == parse_args(args)
             amount == clamp(parsed.amount)
             ws == add_warnings(warnings, amount, warned_user, chat_id,
                                parsed.reason, clock)
             warn_count == Len(get_warnings(ws, warned_user))
         IN /\ Handled("punto", chat_id, lookup, reply_to, args, "warned",
                       warn_count, TRUE)
            /\ users' = add_user(users, warned_user)
            /\ warnings' = ws
            /\ UNCHANGED groups
    ELSE /\ Handled("punto", chat_id, lookup, reply_to, args, "need_reply", 0, TRUE)
         /\ UNCHANGED storeVars

\* warnings_command (/warnings); found: whether context.bot.get_chat returns
WarningsCommand(chat_id, caller, lookup, reply_to, args, found) ==
    /\ UNCHANGED storeVars
    /\ IF ~is_admin(lookup)
       THEN Handled("warnings", chat_id, lookup, reply_to, args, "unauthorized", 0, TRUE)
       ELSE IF reply_to = NoReply /\ args /= <<>> /\ ~(args[1].intok /\ found)
       THEN Handled("warnings", chat_id, lookup, reply_to, args, "not_found", 0, TRUE)
       ELSE LET user_id_to_check ==
                    IF reply_to /= NoReply THEN reply_to[1]
                    ELSE IF args /= <<>> THEN args[1].val
                    ELSE caller
                warnings_data == get_warnings(warnings, user_id_to_check)
            IN IF warnings_data /= <<>>
               THEN Handled("warnings", chat_id, lookup, reply_to, args, "list",
                            Len(warnings_data), TRUE)
               ELSE Handled("warnings", chat_id, lookup, reply_to, args, "no_points",
                            0, TRUE)

\* top_warnings (/topwarnings)
TopWarnings(chat_id) ==
    /\ UNCHANGED storeVars
    /\ LET top_users == get_top_warned_users(warnings, TOP_LIMIT)
       IN IF top_users = <<>>
          THEN Handled("topwarnings", chat_id, "none", NoReply, <<>>, "none_registered",
                       0, TRUE)
          ELSE Handled("topwarnings", chat_id, "none", NoReply, <<>>, "top",
                       Len(top_users), TRUE)

\* no_warnings (/nowarnings)
NoWarnings(chat_id) ==
    /\ UNCHANGED storeVars
    /\ LET us == get_users_with_no_warnings(users, warnings)
       IN IF us = <<>>
          THEN Handled("nowarnings", chat_id, "none", NoReply, <<>>, "all_warned", 0, TRUE)
          ELSE Handled("nowarnings", chat_id, "none", NoReply, <<>>, "no_warnings_list",
                       Len(us), TRUE)

\* clear_warnings_command (/clearwarnings)
ClearWarningsCommand(chat_id, lookup, reply_to) ==
    IF ~is_admin(lookup)
    THEN /\ Handled("clearwarnings", chat_id, lookup, reply_to, <<>>, "unauthorized",
                    0, TRUE)
         /\ UNCHANGED storeVars
    ELSE IF reply_to /= NoReply
    THEN /\ Handled("clearwarnings", chat_id, lookup, reply_to, <<>>, "cleared", 0, TRUE)
         /\ warnings' = clear_warnings(warnings, reply_to[1])
         /\ UNCHANGED <<users, groups>>
    ELSE /\ Handled("clearwarnings", chat_id, lookup, reply_to, <<>>, "need_reply", 0, TRUE)
         /\ UNCHANGED storeVars

\* time passes
Tick ==
    /\ clock < T0 + MaxTicks * TickLen
    /\ clock' = clock + TickLen
    /\ UNCHANGED <<storeVars, banned, last, nreq, sweepVars, histVars>>

----------------------------------------------------------------------------
(* auto_ban_inactive_users *)

\* warnings_col.find_one({"user_id": user_id, "timestamp": {"$gte": one_day_ago}})
\* is not None
\* (variants: $gt for $gte; the test of line 242 without its `not`)
find_recent_strict(ws, user_id, cutoff) ==
    \E i \in Idx(ws) : ws[i].user_id = user_id /\ ws[i].timestamp > cutoff
find_recent_inverted(ws, user_id, cutoff) ==
    ~(\E i \in Idx(ws) : ws[i].user_id = user_id /\ ws[i].timestamp >= cutoff)
find_recent_warning(ws, user_id, cutoff) ==
    \E i \in Idx(ws) : ws[i].user_id = user_id /\ ws[i].timestamp >= cutoff

\* The `for user in all_users` loop from position i up to its next await: the
\* position of the first user without a recent warning for whom the group
\* cursor returns a document, Len(au) + 1 when the loop runs out.
RECURSIVE next_eligible(_, _, _, _, _)
next_eligible(au, ws, gs, cutoff, i) ==
    IF i > Len(au) THEN i
    ELSE IF ~find_recent_warning(ws, au[i], cutoff) /\ gs /= <<>> THEN i
    ELSE next_eligible(au, ws, gs, cutoff, i + 1)

\* the try block of lines 245-250: unban_chat_member is called when
\* ban_chat_member returned, skipped when it raised
\* (variant: no unban call)
after_ban_never_unban(ok) == "next"
after_ban(ok) == IF ok THEN "unban" ELSE "next"

\* the position in the group cursor after the (chat_id, user_id) pair at
\* position g of n ended, with or without an exception (ok)
\* (variant: the try around the group loop, not inside it)
next_group_abort(g, n, ok) == IF ok THEN g + 1 ELSE n + 1
next_group(g, n, ok) == g + 1

\* what a user's record says when the sweep checks it (history only)
RecentIn(ws, u, cutoff) ==
    \E i \in Idx(ws) : ws[i].user_id = u /\ cutoff <= ws[i].timestamp

\* The sweep runs on from user position `from` to its next await.
RunOn(au, cutoff, from, ex, el) ==
    LET j == next_eligible(au, warnings, groups, cutoff, from)
        visited == {au[k] : k \in from..Min(j, Len(au))}
    IN /\ exemptSeen' = ex \cup {u \in visited : RecentIn(warnings, u, cutoff)}
       /\ eligibleSeen' = el \cup {u \in visited : ~RecentIn(warnings, u, cutoff)}
       /\ ui' = j
       /\ IF j > Len(au)
          THEN /\ pc' = "sleep"
               /\ wake' = clock + SLEEP
               /\ cur_groups' = <<>>
               /\ gi' = 0
          ELSE /\ pc' = "ban"
               /\ cur_groups' = groups
               /\ gi' = 1
               /\ wake' = wake

\* A store query raises inside the task: nothing catches it, the coroutine ends.
TaskDies ==
    /\ pc' = "dead"
    /\ UNCHANGED <<all_users, ui, cur_groups, gi, wake, exemptSeen, eligibleSeen>>

\* One pass of the `while True` body starts: asyncio.sleep has returned.
SweepCycle(store_ok) ==
    /\ pc = "sleep"
    /\ clock >= wake
    /\ cycles < MaxCycles
    /\ cycles' = cycles + 1
    /\ now' = clock
    /\ one_day_ago' = clock - DAY
    /\ IF store_ok
       THEN /\ all_users' = users
            /\ callLog' = <<>>
            /\ groupsAtStart' = groups
            /\ RunOn(users, clock - DAY, 1, {}, {})
       ELSE /\ TaskDies
            /\ UNCHANGED <<callLog, groupsAtStart>>
    /\ UNCHANGED <<storeVars, clock, banned, last, nreq>>

\* The pair at position gi ended (ok: without an exception): the next group
\* of the cursor, or the next users.  A store query is made only when users
\* remain to be checked.
PairDone(ok, store_ok) ==
    LET g == next_group(gi, Len(cur_groups), ok)
    IN IF g <= Len(cur_groups)
       THEN /\ store_ok
            /\ gi' = g
            /\ pc' = "ban"
            /\ UNCHANGED <<all_users, ui, cur_groups, wake, exemptSeen, eligibleSeen>>
       ELSE IF ui < Len(all_users) /\ ~store_ok
       THEN TaskDies
       ELSE /\ store_ok
            /\ all_users' = all_users
            /\ RunOn(all_users, one_day_ago, ui + 1, exemptSeen, eligibleSeen)

\* await app.bot.ban_chat_member(chat_id, user_id) returns or raises
BanReturn(ok, store_ok) ==
    /\ pc = "ban"
    /\ callLog' = Append(callLog, [op |-> "ban", chat_id |-> cur_groups[gi],
                                   user_id |-> all_users[ui], ok |-> ok])
    /\ banned' = IF ok THEN banned \cup {<<cur_groups[gi], all_users[ui]>>} ELSE banned
    /\ IF after_ban(ok) = "unban"
       THEN /\ store_ok
            /\ pc' = "unban"
            /\ UNCHANGED <<all_users, ui, cur_groups, gi, wake, exemptSeen, eligibleSeen>>
       ELSE PairDone(ok, store_ok)
    /\ UNCHANGED <<storeVars, clock, last, nreq, now, one_day_ago, cycles, groupsAtStart>>

\* await app.bot.unban_chat_member(chat_id, user_id) returns or raises
UnbanReturn(ok, store_ok) ==
    /\ pc = "unban"
    /\ callLog' = Append(callLog, [op |-> "unban", chat_id |-> cur_groups[gi],
                                   user_id |-> all_users[ui], ok |-> ok])
    /\ banned' = IF ok THEN banned \ {<<cur_groups[gi], all_users[ui]>>} ELSE banned
    /\ PairDone(ok, store_ok)
    /\ UNCHANGED <<storeVars, clock, last, nreq, now, one_day_ago, cycles, groupsAtStart>>

----------------------------------------------------------------------------
(* Specification *)

NoUpdate ==
    [cmd |-> "none", chat_id |-> 0, lookup |-> "none", reply_to |-> NoReply,
     args |-> <<>>, reply |-> "none", total |-> 0, sent |-> FALSE]

Init ==
    /\ users = <<>>
    /\ groups = <<>>
    /\ warnings = <<>>
    /\ clock = T0
    /\ banned = {}
    /\ last = NoUpdate
    /\ nreq = 0
    /\ pc = "sleep"
    /\ now = 0
    /\ one_day_ago = 0
    /\ all_users = <<>>
    /\ ui = 0
    /\ cur_groups = <<>>
    /\ gi = 0
    /\ wake = T0
    /\ cycles = 0
    /\ callLog = <<>>
    /\ exemptSeen = {}
    /\ eligibleSeen = {}
    /\ groupsAtStart = <<>>

ReplyTos == {NoReply} \cup {<<u>> : u \in UserIds}

\* The bot: the sweep task beside the three handlers that write to the store,
\* and the clock.  The other handlers write nothing and the sweep reads no
\* reply, so they are left to NextCommands.  The updates: /start from user 1
\* in chat -1 and from user 2 in chat -2, and an administrator's /punto and
\* /clearwarnings in chat -1 as a reply to either user.  The collections
\* outlive the process, so a cycle may start on any store the handlers built.
StartUpdates == {<<-1, 1>>, <<-2, 2>>}

Next ==
    \/ \E up \in StartUpdates : nreq < MaxSweepCmds /\ Start(up[1], up[2], TRUE)
    \/ \E u \in UserIds : nreq < MaxSweepCmds /\ Warn(-1, "administrator", <<u>>, <<>>)
    \/ \E u \in UserIds :
          nreq < MaxSweepCmds /\ ClearWarningsCommand(-1, "administrator", <<u>>)
    \/ Tick
    \/ \E store_ok \in BOOLEAN : SweepCycle(store_ok)
    \/ \E ok \in BOOLEAN, store_ok \in BOOLEAN : BanReturn(ok, store_ok)
    \/ \E ok \in BOOLEAN, store_ok \in BOOLEAN : UnbanReturn(ok, store_ok)

Spec == Init /\ [][Next]_vars

\* The updates of the handlers that look up the caller's role: <<lookup,
\* reply_to, args>>.  Every argument list comes from a creator replying to a
\* user; the other roles and the missing reply come with two argument lists.
PuntoUpdates ==
    ({"creator"} \X {<<u>> : u \in UserIds} \X ArgLists)
    \cup ({"administrator", "member", "error"} \X {NoReply, <<1>>}
          \X {<<>>, <<N2, WSpam, WFlood>>})
    \cup {<<"creator", NoReply, <<N2, WSpam, WFlood>>>>}
WarningsUpdates ==
    ({"creator"} \X ReplyTos \X IdArgLists)
    \cup ({"administrator", "member", "error"} \X {NoReply, <<1>>} \X {<<>>, <<N2>>})
ClearUpdates ==
    Lookups \X ReplyTos \X {<<>>}

\* The command handlers alone, at one clock value.
NextCommands ==
    \/ \E c \in ChatIds, u \in UserIds, sent \in BOOLEAN :
          nreq < MaxCmds /\ Start(c, u, sent)
    \/ \E c \in ChatIds, up \in PuntoUpdates :
          nreq < MaxCmds /\ Warn(c, up[1], up[2], up[3])
    \/ \E c \in ChatIds, up \in WarningsUpdates, found \in BOOLEAN :
          nreq < MaxCmds /\ WarningsCommand(c, 1, up[1], up[2], up[3], found)
    \/ \E c \in ChatIds : nreq < MaxCmds /\ TopWarnings(c)
    \/ \E c \in ChatIds : nreq < MaxCmds /\ NoWarnings(c)
    \/ \E c \in ChatIds, up \in ClearUpdates :
          nreq < MaxCmds /\ ClearWarningsCommand(c, up[1], up[2])

SpecCommands == Init /\ [][NextCommands]_vars

\* The database functions alone, called in any order, and the clock.
DbCall(fn, chat_id, user_id, n) ==
    /\ last' = [NoUpdate EXCEPT !.cmd = fn, !.chat_id = chat_id,
                                !.reply_to = <<user_id>>, !.total = n]
    /\ UNCHANGED <<clock, banned, nreq, sweepVars, histVars>>

DbAddUser(user_id) ==
    /\ users' = add_user(users, user_id)
    /\ DbCall("add_user", 0, user_id, 0)
    /\ UNCHANGED <<groups, warnings>>

DbAddWarning(user_id, chat_id, reason) ==
    /\ Len(warnings) < MaxDocs
    /\ warnings' = add_warning(warnings, user_id, chat_id, reason, clock)
    /\ DbCall("add_warning", chat_id, user_id, 0)
    /\ UNCHANGED <<users, groups>>

\* n: the number of documents the call deleted
DbClearWarnings(user_id) ==
    /\ warnings' = clear_warnings(warnings, user_id)
    /\ DbCall("clear_warnings", 0, user_id, Len(warnings) - Len(warnings'))
    /\ UNCHANGED <<users, groups>>

NextStore ==
    \/ \E u \in UserIds : DbAddUser(u)
    \/ \E u \in UserIds, c \in ChatIds : DbAddWarning(u, c, DEFAULT_REASON)
    \/ \E u \in UserIds : DbClearWarnings(u)
    \/ Tick

SpecStore == Init /\ [][NextStore]_vars

----------------------------------------------------------------------------
(* Properties of the command handlers (SpecCommands) *)

IsAdminStatus(lookup) == lookup = "administrator" \/ lookup = "creator"

\* the number of warning documents of a user
Points(ws, u) == Cardinality({i \in Idx(ws) : ws[i].user_id = u})

\* the reason text that follows the leading number in the argument lists
\* above that have one
ReasonText(args) ==
    IF args = <<N2, WSpam, WFlood>> THEN "spam flood"
    ELSE IF args = <<N250, WSpam>> THEN "spam"
    ELSE "?"

\* C3: a step that handles an administrator's /punto sent as a reply appends
\* to the warnings collection exactly min(max(n, 1), 100) documents when the
\* first argument is the number n, exactly one otherwise, each for the
\* replied-to user and the current chat and, when reason text follows the
\* number, with that text as reason; the reply reports the user's count
\* before the command plus the number appended.
C3_PuntoInsertsClampedAmount ==
    [][(/\ nreq' = nreq + 1
        /\ last'.cmd = "punto"
        /\ IsAdminStatus(last'.lookup)
        /\ last'.reply_to /= NoReply)
       => LET args == last'.args
              u == last'.reply_to[1]
              numeric == args /= <<>> /\ args[1].isdigit /\ args[1].intok
              k == IF ~numeric THEN 1
                   ELSE IF args[1].val < 1 THEN 1
                   ELSE IF args[1].val > 100 THEN 100
                   ELSE args[1].val
          IN /\ Len(warnings') = Len(warnings) + k
             /\ SubSeq(warnings', 1, Len(warnings)) = warnings
             /\ \A i \in (Len(warnings) + 1)..Len(warnings') :
                   /\ warnings'[i].user_id = u
                   /\ warnings'[i].chat_id = last'.chat_id
                   /\ (numeric /\ Len(args) > 1) => warnings'[i].reason = ReasonText(args)
             /\ last'.reply = "warned"
             /\ last'.total = Points(warnings, u) + k]_vars

\* C3 witness: /punto 250 spam has been handled for a user who already had
\* points: the reply reports more than 100, the user's present count.
C3_Witness ==
    /\ last.cmd = "punto"
    /\ last.reply = "warned"
    /\ last.args = <<N250, WSpam>>
    /\ last.total > 100
    /\ last.total = Points(warnings, last.reply_to[1])
    /\ warnings[Len(warnings)].reason = "spam"

\* C4: a step that handles /punto, /warnings or /clearwarnings from a caller
\* whose role lookup gives neither administrator nor creator, or fails,
\* replies with the unauthorized message and changes none of the three
\* collections.
C4_NonAdminChangesNothing ==
    [][(/\ nreq' = nreq + 1
        /\ last'.cmd \in {"punto", "warnings", "clearwarnings"}
        /\ ~IsAdminStatus(last'.lookup))
       => /\ last'.reply = "unauthorized"
          /\ users' = users
          /\ warnings' = warnings
          /\ groups' = groups]_vars

\* C4 witness: /clearwarnings sent as a reply to a user with points, the role
\* lookup failing, has been answered with the unauthorized message.
C4_Witness ==
    /\ last.cmd = "clearwarnings"
    /\ last.lookup = "error"
    /\ last.reply = "unauthorized"
    /\ last.reply_to /= NoReply
    /\ Points(warnings, last.reply_to[1]) > 0

\* C8 (as claimed): after any command handled in a chat, that chat is in the
\* groups collection.
C8_EveryCommandRegistersGroup ==
    (last.cmd /= "none" /\ last.sent) => \E i \in Idx(groups) : groups[i] = last.chat_id

\* C8 (amended): a step that handles /start and sends its acknowledgment
\* leaves the chat in the groups collection, adding at most that chat; a
\* step that handles any other command leaves the groups collection as it was.
C8_OnlyStartRegistersGroup ==
    [][nreq' = nreq + 1
       => IF last'.cmd = "start" /\ last'.sent
          THEN /\ \E i \in Idx(groups') : groups'[i] = last'.chat_id
               /\ groups' \in {groups, Append(groups, last'.chat_id)}
          ELSE groups' = groups]_vars

\* C8 witness: /start has been handled in a second chat: both are tracked.
C8_Witness ==
    /\ last.cmd = "start"
    /\ last.sent
    /\ Len(groups) = 2
    /\ groups[2] = last.chat_id

----------------------------------------------------------------------------
(* Properties of the database functions (SpecStore) *)

\* C6: no user get_users_with_no_warnings returns has a warning document,
\* and every tracked user without one is returned.
C6_NoWarningsListIsExact ==
    LET res == get_users_with_no_warnings(users, warnings)
        returned == {res[i] : i \in Idx(res)}
    IN /\ \A u \in returned : Points(warnings, u) = 0
       /\ \A k \in Idx(users) : Points(warnings, users[k]) = 0 => users[k] \in returned

\* C6 witness: clear_warnings has deleted the documents of a tracked user,
\* who is now returned, while another tracked user has points and is not.
C6_Witness ==
    LET res == get_users_with_no_warnings(users, warnings)
        returned == {res[i] : i \in Idx(res)}
    IN /\ last.cmd = "clear_warnings"
       /\ last.total > 0
       /\ last.reply_to[1] \in returned
       /\ \E k \in Idx(users) : Points(warnings, users[k]) > 0 /\ users[k] \notin returned

\* C7: for every user u, get_warnings(u) is empty in the store that
\* clear_warnings(u) leaves, a second clear_warnings(u) leaves that store as
\* it is, and get_warnings of every other user is the same as before.
C7_ClearWarningsIdempotent ==
    \A u \in UserIds :
        LET cleared == clear_warnings(warnings, u)
        IN /\ get_warnings(cleared, u) = <<>>
           /\ clear_warnings(cleared, u) = cleared
           /\ \A v \in UserIds \ {u} : get_warnings(cleared, v) = get_warnings(warnings, v)

\* C7 witness: clear_warnings has deleted two documents of a user while
\* another user keeps a document.
C7_Witness ==
    /\ last.cmd = "clear_warnings"
    /\ last.total >= 2
    /\ get_warnings(warnings, last.reply_to[1]) = <<>>
    /\ \E v \in UserIds : get_warnings(warnings, v) /= <<>>

----------------------------------------------------------------------------
(* Properties of the sweep (Spec) *)

\* A cycle has run to its sleep: callLog, exemptSeen and eligibleSeen describe it.
CycleDone == pc = "sleep" /\ cycles >= 1

\* positions in callLog of the calls of one kind for one (chat, user) pair
Calls(op, chat_id, user_id) ==
    {i \in Idx(callLog) : /\ callLog[i].op = op
                          /\ callLog[i].chat_id = chat_id
                          /\ callLog[i].user_id = user_id}

\* C1: at the end of a cycle every user of the cycle's snapshot has been
\* checked, and for every user found without a warning in the last 86400
\* seconds and every group tracked when the cycle started there is exactly
\* one ban call, followed at once by exactly one unban call when the ban
\* succeeded and by none when it failed: a failed ban or unban stops neither
\* the other groups of that user nor the later users.
C1_EveryEligiblePairBannedOnce ==
    CycleDone =>
        /\ \A k \in Idx(all_users) : all_users[k] \in exemptSeen \cup eligibleSeen
        /\ \A u \in eligibleSeen : \A k \in Idx(groupsAtStart) :
              LET bans == Calls("ban", groupsAtStart[k], u)
                  unbans == Calls("unban", groupsAtStart[k], u)
              IN /\ Cardinality(bans) = 1
                 /\ \A i \in bans : unbans = IF callLog[i].ok THEN {i + 1} ELSE {}

\* C1 witness: a cycle ended in which the ban of a user failed in the first
\* group, the same user was still banned in the second group, a later call's
\* unban failed, and another user was handled after that.
C1_Witness ==
    /\ CycleDone
    /\ Len(groupsAtStart) = 2
    /\ \E i, j, k \in Idx(callLog) :
          /\ i < j /\ j < k
          /\ callLog[i].op = "ban" /\ ~callLog[i].ok
          /\ callLog[i].chat_id = groupsAtStart[1]
          /\ callLog[j].op = "ban" /\ callLog[j].user_id = callLog[i].user_id
          /\ callLog[j].chat_id = groupsAtStart[2]
          /\ callLog[j + 1].op = "unban" /\ ~callLog[j + 1].ok
          /\ callLog[k].op = "ban" /\ callLog[k].user_id /= callLog[i].user_id

\* C2: a user who had, when the sweep checked them, a warning in any chat
\* with timestamp >= now - 86400 gets no ban and no unban call in any group
\* in that cycle.
C2_RecentWarningExemptsEverywhere ==
    /\ \A i \in Idx(callLog) : callLog[i].user_id \notin exemptSeen
    /\ pc \in {"ban", "unban"} => all_users[ui] \notin exemptSeen

\* C2 witness: a cycle ended with two groups tracked, a user exempt through
\* warnings that are all from one chat, and another user banned in both groups.
C2_Witness ==
    /\ CycleDone
    /\ Len(groupsAtStart) = 2
    /\ \E u \in exemptSeen :
          /\ Cardinality({warnings[i].chat_id : i \in
                            {j \in Idx(warnings) : warnings[j].user_id = u}}) = 1
          /\ \A i \in Idx(callLog) : callLog[i].user_id /= u
    /\ \E v \in eligibleSeen : \A k \in Idx(groupsAtStart) :
          Calls("ban", groupsAtStart[k], v) /= {}

\* C5 (as claimed): a failed store query never ends the sweep task.
C5_SweepSurvivesStoreFailure == pc /= "dead"

\* C9 (as claimed): at the end of a cycle every pair whose ban succeeded in
\* the cycle has had a successful unban after it.
C9_EveryBanUndone ==
    CycleDone =>
        \A i \in Idx(callLog) :
            (callLog[i].op = "ban" /\ callLog[i].ok) =>
                \E j \in Idx(callLog) :
                    /\ j > i
                    /\ callLog[j].op = "unban" /\ callLog[j].ok
                    /\ callLog[j].chat_id = callLog[i].chat_id
                    /\ callLog[j].user_id = callLog[i].user_id

\* C9 (amended): at the end of a cycle every successful ban of the cycle is
\* followed at once by one unban call for the same pair, and the pair is
\* still banned exactly when that unban failed.
C9_BanFollowedByUnbanAttempt ==
    CycleDone =>
        \A i \in Idx(callLog) :
            (callLog[i].op = "ban" /\ callLog[i].ok) =>
                /\ i + 1 <= Len(callLog)
                /\ callLog[i + 1].op = "unban"
                /\ callLog[i + 1].chat_id = callLog[i].chat_id
                /\ callLog[i + 1].user_id = callLog[i].user_id
                /\ (<<callLog[i].chat_id, callLog[i].user_id>> \in banned)
                       <=> ~callLog[i + 1].ok

\* C9 witness: a cycle ended with a successful ban whose unban failed, the
\* user still banned in that group.
C9_Witness ==
    /\ CycleDone
    /\ \E i \in Idx(callLog) :
          /\ callLog[i].op = "ban" /\ callLog[i].ok
          /\ i + 1 <= Len(callLog)
          /\ callLog[i + 1].op = "unban" /\ ~callLog[i + 1].ok
          /\ <<callLog[i].chat_id, callLog[i].user_id>> \in banned

\* C10 (as claimed): at every step in which the sweep issues a ban call, the
\* warnings collection holds no warning of that user with timestamp >= the
\* cycle's cutoff.
C10_NoBanWithRecentWarning ==
    [][(pc' = "ban" /\ <<pc, ui, gi, cycles>> /= <<pc', ui', gi', cycles'>>)
          => ~RecentIn(warnings', all_users'[ui'], one_day_ago')]_vars

\* C10 (amended): while a ban call for a user is in flight, every warning of
\* that user with timestamp >= the cycle's cutoff has a timestamp >= the
\* cycle's `now`: it was recorded after the one check the cycle makes for
\* that user.
C10_RecentWarningsPostdateCheck ==
    pc = "ban" =>
        \A i \in Idx(warnings) :
            (warnings[i].user_id = all_users[ui] /\ warnings[i].timestamp >= one_day_ago)
                => warnings[i].timestamp >= now

\* C10 witness: the sweep has issued the ban of a user for the second group
\* while the collection holds a warning of that user newer than the cutoff.
C10_Witness ==
    /\ pc = "ban"
    /\ gi = 2
    /\ RecentIn(warnings, all_users[ui], one_day_ago)

====
